---- MODULE Spec2Model ----
(***************************************************************************)
(* Job scheduling and process supervision of api_server.py (TransVox).     *)
(*                                                                         *)
(* State: the module-level JOB_STATUS registry, the JOB_QUEUE deque, the   *)
(* RUNNING_JOB slot and the PROCESS_MAP table, the position of the single  *)
(* _job_worker coroutine, the position of the executor thread that runs    *)
(* _run_full_pipeline, and the OS processes spawned for each job.          *)
(*                                                                         *)
(* Request handlers contain no await between their first read and last     *)
(* write of scheduler state, so each handler is one action.  The worker    *)
(* coroutine is cut at its awaits.  _run_full_pipeline runs in a thread    *)
(* pool thread, in parallel with the event loop, so it is cut at every     *)
(* access to shared state.                                                 *)
(*                                                                         *)
(* Not modelled: CURRENT_RUNNING (always assigned together with            *)
(* RUNNING_JOB), the 'ts' timestamps and the 'error_details' text (written *)
(* together with 'pipeline_error').                                        *)
(***************************************************************************)
EXTENDS Integers, Sequences, FiniteSets, TLC

\* ---------------------------------------------------------------- bounds
MaxJobs == 2
MaxPid == 4

JobIds == 1..MaxJobs
NoJob == 0
Users == {"u1", "u2"}
NoUser == "none"

\* OS process ids; ServerPid is the process that runs api_server.py
Pids == 1..MaxPid
ServerPid == 1

\* ------------------------------------------------------ progress extractor
\* A line of runner output is the set of the marker substrings it contains.
\* Markers tested against line.lower() are written in lower case; a marker
\* zh_x stands for the Chinese substring the code tests (zh_done for the
\* word "finished", zh_transcribe for "transcribe", and so on).
L_banner   == {"zh_pipeline_begin"}
L_engine   == {"whisperx", "zh_transcribe"}
L_ttscfg   == {"TTS"}
L_step1    == {"[Step 1]", "zh_av_and_transcribe", "zh_transcribe"}
L_step2end == {"[Step 2]", "zh_done"}
L_final    == {"zh_final_video"}
L_other    == {}

Lines == {L_ttscfg, L_step2end, L_other}

NoProgress == [step |-> "none", progress |-> -1]

Hit(step, progress) == [step |-> step, progress |-> progress]

\* 'stepA' in line.lower() and 'stepB' in line.lower() can never hold: the
\* needle has an upper-case letter and the haystack has none.
parse_pipeline_progress(line) ==
  IF "zh_pipeline_begin" \in line THEN Hit("pipeline_start", 5)
  ELSE IF "[Step 1]" \in line THEN
         IF "zh_av_and_transcribe" \in line THEN Hit("audio_separation", 10)
         ELSE IF "zh_done" \in line THEN Hit("audio_separation_done", 35)
         ELSE NoProgress
  ELSE IF FALSE \/ "zh_separate_audio" \in line THEN Hit("audio_processing", 15)
  ELSE IF "whisperx" \in line \/ "zh_transcribe" \in line THEN Hit("transcription", 20)
  ELSE IF "zh_speaker_id" \in line \/ "diarization" \in line THEN Hit("diarization", 25)
  ELSE IF "[Step 2]" \in line THEN
         IF "zh_translate_subs" \in line THEN Hit("translation", 40)
         ELSE IF "zh_done" \in line THEN Hit("translation_done", 55)
         ELSE NoProgress
  ELSE IF "step4_translate" \in line \/ "zh_translating" \in line THEN Hit("translating", 45)
  ELSE IF "[Step 3]" \in line THEN
         IF "IndexTTS" \in line \/ "GPT-SoVITS" \in line THEN Hit("tts_synthesis", 60)
         ELSE IF "zh_done" \in line THEN Hit("tts_done", 85)
         ELSE NoProgress
  ELSE IF FALSE \/ "TTS" \in line THEN Hit("tts_processing", 65)
  ELSE IF "zh_generate_tts_audio" \in line \/ "generating audio" \in line THEN Hit("tts_generating", 75)
  ELSE IF "merge" \in line \/ "zh_merge" \in line THEN
         IF "zh_begin" \in line \/ "start" \in line THEN Hit("merging_start", 88)
         ELSE IF "zh_done" \in line \/ "done" \in line THEN Hit("merging_done", 95)
         ELSE Hit("merging", 90)
  ELSE IF "zh_pipeline_finished" \in line \/ "zh_all_steps_done" \in line THEN Hit("completed", 98)
  ELSE IF "zh_final_video" \in line \/ "final video" \in line THEN Hit("final_video", 96)
  ELSE NoProgress

\* ------------------------------------------------------------ job records
\* One JOB_STATUS value.  A key the Python dict does not have is "absent",
\* NoUser or FALSE here; status "absent" stands for a missing registry key.
NoRec ==
  [status |-> "absent", step |-> "", progress |-> 0, user_id |-> NoUser,
   cancel |-> FALSE, data |-> "absent", data_user |-> NoUser,
   final_video |-> FALSE, error |-> "absent", pipeline_error |-> FALSE]

Rec(status, step, progress, user) ==
  [NoRec EXCEPT !.status = status, !.step = step, !.progress = progress,
                !.user_id = user]

Terminal == {"succeeded", "failed", "cancelled"}
Active == {"queued", "running"}

\* ------------------------------------------------------------------ state
VARIABLES
  JOB_STATUS,        \* job id -> record (NoRec when the key is missing)
  JOB_QUEUE,         \* deque of queued jobs, head first
  RUNNING_JOB,       \* job held by the running slot, NoJob for None
  PROCESS_MAP,       \* job id -> registered process of the job (0: no entry)
  jobs,              \* job id -> the immutable job dict built at submission
  nextId,            \* next fresh job id (_new_job_id)
  procs,             \* job id -> process number -> OS state of that process
  wpc, wjob,         \* _job_worker / _execute_job: position and its job
  tpc, tline, tres,  \* _run_full_pipeline thread: position, line, return value
  resp,              \* the last HTTP response sent by a handler (NoResp once
                     \* the server has closed its connections)
  cancelledQueued,   \* history: jobs cancelled through the queued path
  cancelledRunning,  \* history: jobs for which a cancel was accepted while running
  down,              \* the shutdown part of lifespan has run
  psutil,            \* 'import psutil' succeeded (line 46)
  platform,          \* platform.system()
  ptable             \* OS process table: pid -> state, parent pid, process group

vars == <<JOB_STATUS, JOB_QUEUE, RUNNING_JOB, PROCESS_MAP, jobs, nextId, procs,
          wpc, wjob, tpc, tline, tres, resp, cancelledQueued,
          cancelledRunning, down, psutil, platform, ptable>>

osvars == <<psutil, platform, ptable>>
sched == <<JOB_STATUS, JOB_QUEUE, RUNNING_JOB, PROCESS_MAP, procs>>
hist == <<cancelledQueued, cancelledRunning>>
worker == <<wpc, wjob>>
thread == <<tpc, tline, tres>>

NoJobDict == [user_id |-> NoUser, skip_tts |-> FALSE]
NoResp == [op |-> "none", code |-> 0, ref |-> NoJob]
Resp(op, code, ref) == [op |-> op, code |-> code, ref |-> ref]
Reply(keep, op, code, ref) == IF keep THEN Resp(op, code, ref) ELSE NoResp

\* the module-level state of lines 297-302 and the idle worker
SchedInit ==
  /\ JOB_STATUS = [j \in JobIds |-> NoRec]
  /\ JOB_QUEUE = <<>>
  /\ RUNNING_JOB = NoJob
  /\ PROCESS_MAP = [j \in JobIds |-> 0]
  /\ jobs = [j \in JobIds |-> NoJobDict]
  /\ nextId = 1
  /\ procs = [j \in JobIds |-> [k \in 1..2 |-> "none"]]
  /\ wpc = "idle" /\ wjob = NoJob
  /\ tpc = "off" /\ tline = L_other /\ tres = FALSE
  /\ resp = NoResp
  /\ cancelledQueued = {} /\ cancelledRunning = {}
  /\ down = FALSE

NoProc == [state |-> "none", ppid |-> 0, pgid |-> 0]

\* only the server process exists; it leads its own process group
OnlyServer ==
  [p \in Pids |-> IF p = ServerPid
                  THEN [state |-> "alive", ppid |-> 0, pgid |-> ServerPid]
                  ELSE NoProc]

\* The scheduler is modelled on a host where psutil is installed:
\* _kill_process_tree then terminates the process it is given and its
\* descendants, which is what kill_process_tree below does.  The other
\* branches of _kill_process_tree are modelled by KillSpec.
Init ==
  /\ SchedInit
  /\ psutil = TRUE
  /\ platform = "Linux"
  /\ ptable = OnlyServer

\* ---------------------------------------------------------------- helpers
InQueue(q) == {q[i] : i \in 1..Len(q)}

\* mutant of Enqueue: appendleft instead of append
Enqueue_appendleft(q, j) == <<j>> \o q

\* JOB_QUEUE.append(job)
Enqueue(q, j) == Append(q, j)

\* mutant of RemoveFromQueue: the job is reported removed but stays queued
RemoveFromQueue_noop(q, j) == q

\* JOB_QUEUE.remove(job): the other entries keep their order
RemoveFromQueue(q, j) == SelectSeq(q, LAMBDA x : x # j)

\* st.get('data', {}).get('user_id') or st.get('user_id')
Owner(st) == IF st.data_user # NoUser THEN st.data_user ELSE st.user_id

Alive(ps, j) == \E k \in 1..2 : ps[j][k] = "alive"

\* _kill_process_tree(proc.pid): the process and its descendants are
\* terminated; a process that has already exited is left as it is.
kill_process_tree(ps, j, k) ==
  IF ps[j][k] = "alive" THEN [ps EXCEPT ![j][k] = "killed"] ELSE ps

\* kill of the process registered for j, if any, as the handlers do it
KillRegistered(ps, pm, j) ==
  IF pm[j] # 0 THEN kill_process_tree(ps, j, pm[j]) ELSE ps

\* if RUNNING_JOB and RUNNING_JOB.get('job_id') == job_id: RUNNING_JOB = None
Release(rj, j) == IF rj = j THEN NoJob ELSE rj

\* mutant of user_has_active_job: only the running slot is consulted
user_has_active_job_running_only(u) ==
  IF RUNNING_JOB # NoJob /\ jobs[RUNNING_JOB].user_id = u THEN {RUNNING_JOB}
  ELSE {NoJob}

\* _user_has_active_job: the ids it can return (NoJob for None).  The third
\* scan walks JOB_STATUS in dict order, which re-inserted keys change, so
\* every match of that scan is a possible result.
user_has_active_job(u) ==
  IF RUNNING_JOB # NoJob /\ jobs[RUNNING_JOB].user_id = u THEN {RUNNING_JOB}
  ELSE IF \E i \in 1..Len(JOB_QUEUE) : jobs[JOB_QUEUE[i]].user_id = u
    THEN {JOB_QUEUE[CHOOSE i \in 1..Len(JOB_QUEUE) :
             /\ jobs[JOB_QUEUE[i]].user_id = u
             /\ \A h \in 1..(i-1) : jobs[JOB_QUEUE[h]].user_id # u]}
  ELSE LET hits == {j \in JobIds : /\ JOB_STATUS[j].status \in Active
                                   /\ JOB_STATUS[j].user_id = u}
       IN IF hits # {} THEN hits ELSE {NoJob}

\* mutant of QueuedRec: a submitted job is recorded as running at once
QueuedRec_marked_running(u) == Rec("running", "", 0, u)

\* the record of lines 2093 and 2260
QueuedRec(u) == Rec("queued", "", 0, u)

\* mutant of CancelledRec: the cancelled record reports a percent
CancelledRec_with_percent(u) == Rec("cancelled", "cancelled", 50, u)

\* the records of lines 383, 411, 637, 655, 904 and 926
CancelledRec(u) == Rec("cancelled", "cancelled", 0, u)

\* ------------------------------------------------------------- submission
\* Requests are handled only until the server shuts down (~down).
\* No handler, worker or thread step reads resp: it records what the client
\* was told.  keep = FALSE is the same handler with that record left out.
\* The part of /process and /api/pipeline/start from the admission check to
\* the enqueue.
Submit(keep, op, u, skip) ==
  /\ ~down
  /\ \E existing \in user_has_active_job(u) :
       IF existing # NoJob
       THEN /\ resp' = Reply(keep, op, 409, existing)
            /\ UNCHANGED <<sched, jobs, nextId, worker, thread, hist, down, osvars>>
       ELSE /\ nextId <= MaxJobs
            /\ jobs' = [jobs EXCEPT ![nextId] = [user_id |-> u, skip_tts |-> skip]]
            /\ JOB_STATUS' = [JOB_STATUS EXCEPT ![nextId] = QueuedRec(u)]
            /\ JOB_QUEUE' = Enqueue(JOB_QUEUE, nextId)
            /\ nextId' = nextId + 1
            /\ resp' = Reply(keep, op, 200, nextId)
            /\ UNCHANGED <<RUNNING_JOB, PROCESS_MAP, procs, worker, thread, hist, down, osvars>>

\* POST /process
process(u, skip) == Submit(TRUE, "process", u, skip)

\* POST /api/pipeline/start (always the full pipeline)
start_pipeline_api(u) == Submit(TRUE, "start", u, FALSE)

\* ----------------------------------------------------------- cancellation
\* the body of cancel
cancel_request(keep, u, j) ==
  LET st == JOB_STATUS[j]
      owner == Owner(st)
      removed == j \in InQueue(JOB_QUEUE) /\ jobs[j].user_id = u
  IN
  ~down /\
  IF st.status = "absent"
  THEN /\ resp' = Reply(keep, "cancel", 404, j)
       /\ UNCHANGED <<sched, jobs, nextId, worker, thread, hist, down, osvars>>
  ELSE IF owner # NoUser /\ owner # u
  THEN /\ resp' = Reply(keep, "cancel", 403, j)
       /\ UNCHANGED <<sched, jobs, nextId, worker, thread, hist, down, osvars>>
  ELSE IF removed
  THEN /\ JOB_QUEUE' = RemoveFromQueue(JOB_QUEUE, j)
       /\ JOB_STATUS' = [JOB_STATUS EXCEPT ![j] = CancelledRec(u)]
       /\ resp' = Reply(keep, "cancel", 200, j)
       /\ cancelledQueued' = cancelledQueued \cup {j}
       /\ UNCHANGED <<RUNNING_JOB, PROCESS_MAP, procs, jobs, nextId, worker,
                      thread, cancelledRunning, down, osvars>>
  ELSE \* st['cancel'] = True and st['user_id'] are set on the old record,
       \* which line 926 replaces before the handler returns
       /\ procs' = KillRegistered(procs, PROCESS_MAP, j)
       /\ PROCESS_MAP' = [PROCESS_MAP EXCEPT ![j] = 0]
       /\ JOB_STATUS' = [JOB_STATUS EXCEPT ![j] = CancelledRec(u)]
       /\ RUNNING_JOB' = Release(RUNNING_JOB, j)
       /\ resp' = Reply(keep, "cancel", 200, j)
       /\ cancelledRunning' = IF st.status = "running"
                              THEN cancelledRunning \cup {j} ELSE cancelledRunning
       /\ UNCHANGED <<JOB_QUEUE, jobs, nextId, worker, thread, cancelledQueued, down, osvars>>

\* POST /cancel
cancel(u, j) == cancel_request(TRUE, u, j)

\* the body of stop_pipeline
stop_pipeline_request(keep, u, j) ==
  LET st == JOB_STATUS[j]
      owner == Owner(st)
      removed == j \in InQueue(JOB_QUEUE)
  IN
  ~down /\
  IF st.status = "absent"
  THEN /\ resp' = Reply(keep, "stop", 404, j)
       /\ UNCHANGED <<sched, jobs, nextId, worker, thread, hist, down, osvars>>
  ELSE IF owner # NoUser /\ owner # u
  THEN /\ resp' = Reply(keep, "stop", 403, j)
       /\ UNCHANGED <<sched, jobs, nextId, worker, thread, hist, down, osvars>>
  ELSE IF removed
  THEN /\ JOB_QUEUE' = RemoveFromQueue(JOB_QUEUE, j)
       /\ JOB_STATUS' = [JOB_STATUS EXCEPT ![j] = CancelledRec(u)]
       /\ resp' = Reply(keep, "stop", 200, j)
       /\ cancelledQueued' = cancelledQueued \cup {j}
       /\ UNCHANGED <<RUNNING_JOB, PROCESS_MAP, procs, jobs, nextId, worker,
                      thread, cancelledRunning, down, osvars>>
  ELSE /\ procs' = KillRegistered(procs, PROCESS_MAP, j)
       /\ PROCESS_MAP' = [PROCESS_MAP EXCEPT ![j] = 0]
       /\ JOB_STATUS' = [JOB_STATUS EXCEPT ![j] = CancelledRec(u)]
       /\ RUNNING_JOB' = Release(RUNNING_JOB, j)
       /\ resp' = Reply(keep, "stop", 200, j)
       /\ cancelledRunning' = IF st.status = "running"
                              THEN cancelledRunning \cup {j} ELSE cancelledRunning
       /\ UNCHANGED <<JOB_QUEUE, jobs, nextId, worker, thread, cancelledQueued, down, osvars>>

\* POST /api/pipeline/stop/{taskId}
stop_pipeline(u, j) == stop_pipeline_request(TRUE, u, j)

\* the body of clear_pipeline_task
clear_pipeline_task_request(keep, u, j) ==
  LET st == JOB_STATUS[j]
      owner == Owner(st)
  IN
  ~down /\
  IF st.status # "absent" /\ owner # NoUser /\ owner # u
  THEN /\ resp' = Reply(keep, "clear", 403, j)
       /\ UNCHANGED <<sched, jobs, nextId, worker, thread, hist, down, osvars>>
  ELSE /\ procs' = IF st.status = "running"
                   THEN KillRegistered(procs, PROCESS_MAP, j) ELSE procs
       /\ JOB_STATUS' = [JOB_STATUS EXCEPT ![j] = NoRec]
       /\ PROCESS_MAP' = [PROCESS_MAP EXCEPT ![j] = 0]
       /\ JOB_QUEUE' = RemoveFromQueue(JOB_QUEUE, j)
       /\ RUNNING_JOB' = Release(RUNNING_JOB, j)
       /\ resp' = Reply(keep, "clear", 200, j)
       /\ UNCHANGED <<jobs, nextId, worker, thread, hist, down, osvars>>

\* DELETE /api/pipeline/clear/{taskId}
clear_pipeline_task(u, j) == clear_pipeline_task_request(TRUE, u, j)

\* ------------------------------------------------------------ worker loop
\* mutant of RunningRec: the worker leaves the job it runs marked 'queued'
RunningRec_requeued(step, progress, u) == Rec("queued", step, progress, u)

\* the records of lines 224, 378, 406 and 432
RunningRec(step, progress, u) == Rec("running", step, progress, u)

\* mutant of collect_outputs_from_dir: no result is attached to the record
collect_outputs_from_dir_nothing(st, u, fv) == st

\* _collect_outputs_from_dir followed by data.update({'user_id': ...}); the
\* paths are probed on disk, fv tells whether merge/<stem>_dubbed.mp4 exists
collect_outputs_from_dir(st, u, fv) ==
  [st EXCEPT !.data = "full", !.data_user = u, !.final_video = fv]

\* mutant of SucceededRec: the last write leaves the job 'running' (finalize)
SucceededRec_still_running(u, fv) ==
  collect_outputs_from_dir(Rec("running", "finalize", 90, u), u, fv)

\* the record of line 490
SucceededRec(u, fv) ==
  collect_outputs_from_dir(Rec("succeeded", "done", 100, u), u, fv)

\* mutant of ExceptionRec: the except branch leaves the job 'running'
ExceptionRec_left_running(u) == Rec("running", "exception", 0, u)

\* the record of line 493
ExceptionRec(u) == [Rec("failed", "exception", 0, u) EXCEPT !.error = "exception"]

\* mutant of StepFailedRec: a non-zero exit code is reported as a success
StepFailedRec_succeeded(step) == Rec("succeeded", step, 100, NoUser)

\* the records of lines 392 and 420: no user_id, no error
StepFailedRec(step) == Rec("failed", step, 0, NoUser)

\* the record of lines 458-466
PipelineFailedRec(cur, u) ==
  [Rec("failed", "pipeline_failed", 0, u) EXCEPT
     !.error = IF cur.pipeline_error THEN "pipeline_error" ELSE "default"]

\* JOB_QUEUE.popleft()
QueueHead(q) == Head(q)
QueueRest(q) == Tail(q)

\* the Popen objects of j go out of scope when _execute_job returns: a
\* process that has exited is reaped ("gone"), its exit code is forgotten
Reap(ps, j) ==
  [ps EXCEPT ![j] = [k \in 1..2 |->
      IF ps[j][k] \in {"exit0", "exit1", "killed"} THEN "gone" ELSE ps[j][k]]]

\* mutant of Finish: the running slot is not released when a job ends
Finish_keeps_slot(j, ps) ==
  /\ procs' = Reap(ps, j)
  /\ PROCESS_MAP' = [PROCESS_MAP EXCEPT ![j] = 0]
  /\ RUNNING_JOB' = RUNNING_JOB
  /\ wpc' = "idle"
  /\ wjob' = NoJob

\* the finally block of _execute_job and lines 226-227 of the worker
Finish(j, ps) ==
  /\ procs' = Reap(ps, j)
  /\ PROCESS_MAP' = [PROCESS_MAP EXCEPT ![j] = 0]
  /\ RUNNING_JOB' = NoJob
  /\ wpc' = "idle"
  /\ wjob' = NoJob

\* _job_worker pops the head and runs _execute_job up to its first await.
\* fault: an exception before the first await (mkdir or Popen fails).
job_worker(fault) ==
  /\ wpc = "idle"
  /\ RUNNING_JOB = NoJob
  /\ JOB_QUEUE # <<>>
  /\ LET j == QueueHead(JOB_QUEUE)
         u == jobs[j].user_id
     IN
     /\ JOB_QUEUE' = QueueRest(JOB_QUEUE)
     /\ IF fault
        THEN /\ JOB_STATUS' = [JOB_STATUS EXCEPT ![j] = ExceptionRec(u)]
             /\ PROCESS_MAP' = [PROCESS_MAP EXCEPT ![j] = 0]
             /\ UNCHANGED <<RUNNING_JOB, procs, worker, thread>>
        ELSE IF jobs[j].skip_tts
        THEN /\ JOB_STATUS' = [JOB_STATUS EXCEPT ![j] = RunningRec("stepA", 20, u)]
             /\ procs' = [procs EXCEPT ![j][1] = "alive"]
             /\ PROCESS_MAP' = [PROCESS_MAP EXCEPT ![j] = 1]
             /\ RUNNING_JOB' = j
             /\ wpc' = "p1" /\ wjob' = j
             /\ UNCHANGED thread
        ELSE /\ JOB_STATUS' = [JOB_STATUS EXCEPT ![j] = RunningRec("prepare", 5, u)]
             /\ RUNNING_JOB' = j
             /\ wpc' = "full" /\ wjob' = j
             /\ tpc' = "spawn"
             /\ UNCHANGED <<PROCESS_MAP, procs, tline, tres>>
  /\ UNCHANGED <<jobs, nextId, resp, hist, down, osvars>>

\* a wake-up of the poll loop on p1 (lines 380-407)
execute_job_poll_p1(fault) ==
  /\ wpc = "p1"
  /\ LET j == wjob
         u == jobs[j].user_id
         p == procs[j][1]
     IN
     IF p = "alive"
     THEN IF JOB_STATUS[j].cancel
          THEN /\ JOB_STATUS' = [JOB_STATUS EXCEPT ![j] = CancelledRec(NoUser)]
               /\ Finish(j, kill_process_tree(procs, j, 1))
               /\ UNCHANGED <<JOB_QUEUE, thread>>
          ELSE fault = FALSE /\ UNCHANGED <<sched, worker, thread>>
     ELSE IF p # "exit0"
     THEN /\ fault = FALSE
          /\ JOB_STATUS' = [JOB_STATUS EXCEPT ![j] = StepFailedRec("stepA")]
          /\ Finish(j, procs)
          /\ UNCHANGED <<JOB_QUEUE, thread>>
     ELSE IF fault
     THEN /\ JOB_STATUS' = [JOB_STATUS EXCEPT ![j] = ExceptionRec(u)]
          /\ Finish(j, procs)
          /\ UNCHANGED <<JOB_QUEUE, thread>>
     ELSE /\ JOB_STATUS' = [JOB_STATUS EXCEPT ![j] = RunningRec("translate", 60, u)]
          /\ procs' = [procs EXCEPT ![j][2] = "alive"]
          /\ PROCESS_MAP' = [PROCESS_MAP EXCEPT ![j] = 2]
          /\ wpc' = "p2"
          /\ UNCHANGED <<JOB_QUEUE, RUNNING_JOB, wjob, thread>>
  /\ UNCHANGED <<jobs, nextId, resp, hist, down, osvars>>

\* a wake-up of the poll loop on p2 (lines 408-426), then lines 476-490
execute_job_poll_p2(fv) ==
  /\ wpc = "p2"
  /\ LET j == wjob
         u == jobs[j].user_id
         p == procs[j][2]
     IN
     IF p = "alive"
     THEN IF JOB_STATUS[j].cancel
          THEN /\ JOB_STATUS' = [JOB_STATUS EXCEPT ![j] = CancelledRec(NoUser)]
               /\ Finish(j, kill_process_tree(procs, j, 2))
               /\ UNCHANGED <<JOB_QUEUE, thread>>
          ELSE fv = FALSE /\ UNCHANGED <<sched, worker, thread>>
     ELSE IF p # "exit0"
     THEN /\ fv = FALSE
          /\ JOB_STATUS' = [JOB_STATUS EXCEPT ![j] = StepFailedRec("translate")]
          /\ Finish(j, procs)
          /\ UNCHANGED <<JOB_QUEUE, thread>>
     ELSE /\ JOB_STATUS' = [JOB_STATUS EXCEPT ![j] = SucceededRec(u, fv)]
          /\ Finish(j, procs)
          /\ UNCHANGED <<JOB_QUEUE, thread>>
  /\ UNCHANGED <<jobs, nextId, resp, hist, down, osvars>>

\* _execute_job resumes when run_in_executor returns (lines 449-500)
execute_job_full_done(fv) ==
  /\ wpc = "full"
  /\ tpc = "done"
  /\ LET j == wjob
         u == jobs[j].user_id
     IN
     /\ IF ~tres
        THEN /\ fv = FALSE
             /\ JOB_STATUS' = [JOB_STATUS EXCEPT ![j] = PipelineFailedRec(JOB_STATUS[j], u)]
        ELSE JOB_STATUS' = [JOB_STATUS EXCEPT ![j] = SucceededRec(u, fv)]
     /\ Finish(j, procs)
  /\ tpc' = "off"
  /\ tres' = FALSE
  /\ UNCHANGED <<JOB_QUEUE, tline, jobs, nextId, resp, hist, down, osvars>>

\* --------------------------------------------- _run_full_pipeline (thread)
\* JOB_STATUS[job_id].update({...}) guarded by 'job_id in JOB_STATUS'
UpdateIfPresent(js, j, new) ==
  IF js[j].status # "absent" THEN [js EXCEPT ![j] = new] ELSE js

\* the except branches: record the error, drop the table entry, return False
ThreadFail(j) ==
  /\ JOB_STATUS' = UpdateIfPresent(JOB_STATUS, j,
                      [JOB_STATUS[j] EXCEPT !.pipeline_error = TRUE])
  /\ PROCESS_MAP' = [PROCESS_MAP EXCEPT ![j] = 0]
  /\ tres' = FALSE
  /\ tpc' = "done"

\* subprocess.Popen(cmd, ...) (lines 1243-1253); ok = FALSE: Popen raises
run_full_pipeline_spawn(ok) ==
  /\ tpc = "spawn"
  /\ IF ok
     THEN /\ procs' = [procs EXCEPT ![wjob][1] = "alive"]
          /\ tpc' = "register"
          /\ UNCHANGED <<JOB_STATUS, PROCESS_MAP, tres>>
     ELSE /\ ThreadFail(wjob)
          /\ UNCHANGED procs
  /\ UNCHANGED <<JOB_QUEUE, RUNNING_JOB, tline, jobs, nextId, worker, resp, hist, down, osvars>>

\* PROCESS_MAP[job_id] = process (line 1257)
run_full_pipeline_register ==
  /\ tpc = "register"
  /\ PROCESS_MAP' = [PROCESS_MAP EXCEPT ![wjob] = 1]
  /\ tpc' = "read"
  /\ UNCHANGED <<JOB_STATUS, JOB_QUEUE, RUNNING_JOB, procs, tline, tres, jobs,
                 nextId, worker, resp, hist, down, osvars>>

\* process.stdout.readline() returns a line of the live runner (line 1261)
run_full_pipeline_readline(line) ==
  /\ tpc = "read"
  /\ procs[wjob][1] = "alive"
  /\ tline' = line
  /\ tpc' = "check"
  /\ UNCHANGED <<sched, tres, jobs, nextId, worker, resp, hist, down, osvars>>

\* the cancel check of lines 1266-1270, then the parse of line 1277; tline
\* is the loop variable 'line', dead (L_other) outside an iteration
run_full_pipeline_check ==
  /\ tpc = "check"
  /\ IF JOB_STATUS[wjob].status = "cancelled"
     THEN /\ procs' = kill_process_tree(procs, wjob, 1)
          /\ PROCESS_MAP' = [PROCESS_MAP EXCEPT ![wjob] = 0]
          /\ tres' = FALSE
          /\ tpc' = "done"
          /\ tline' = L_other
     ELSE IF parse_pipeline_progress(tline) = NoProgress
     THEN /\ tpc' = "read"
          /\ tline' = L_other
          /\ UNCHANGED <<procs, PROCESS_MAP, tres>>
     ELSE /\ tpc' = "update"
          /\ UNCHANGED <<procs, PROCESS_MAP, tres, tline>>
  /\ UNCHANGED <<JOB_STATUS, JOB_QUEUE, RUNNING_JOB, jobs, nextId, worker, resp,
                 hist, down, osvars>>

\* the value stored for a classified line (lines 1305-1311)
ProgressValue(st, info) == info.progress

\* the progress write of lines 1304-1331; srt: <stem>.translated.srt exists
ProgressUpdate(st, info, u, srt) ==
  LET upd == [st EXCEPT !.status = "running", !.step = info.step,
                        !.progress = ProgressValue(st, info), !.user_id = u]
  IN IF info.step = "translation_done" /\ srt /\ upd.data = "absent"
     THEN [upd EXCEPT !.data = "partial"] ELSE upd

run_full_pipeline_update(srt) ==
  /\ tpc = "update"
  /\ LET info == parse_pipeline_progress(tline)
     IN /\ srt => info.step = "translation_done"
        /\ JOB_STATUS' = UpdateIfPresent(JOB_STATUS, wjob,
              ProgressUpdate(JOB_STATUS[wjob], info, jobs[wjob].user_id, srt))
  /\ tpc' = "read"
  /\ tline' = L_other
  /\ UNCHANGED <<JOB_QUEUE, RUNNING_JOB, PROCESS_MAP, procs, tres, jobs, nextId,
                 worker, resp, hist, down, osvars>>

\* readline returns '' once the runner is gone, then lines 1333-1375 (exit
\* code 0) or the CalledProcessError branch of lines 1377-1404
run_full_pipeline_wait ==
  /\ tpc = "read"
  /\ procs[wjob][1] # "alive"
  /\ IF procs[wjob][1] = "exit0"
     THEN /\ JOB_STATUS' = UpdateIfPresent(JOB_STATUS, wjob,
                [JOB_STATUS[wjob] EXCEPT !.status = "running", !.step = "completed",
                    !.progress = 98, !.user_id = jobs[wjob].user_id])
          /\ PROCESS_MAP' = [PROCESS_MAP EXCEPT ![wjob] = 0]
          /\ tres' = TRUE
          /\ tpc' = "done"
     ELSE ThreadFail(wjob)
  /\ UNCHANGED <<JOB_QUEUE, RUNNING_JOB, procs, tline, jobs, nextId, worker,
                 resp, hist, down, osvars>>

\* ---------------------------------------------------------------- shutdown
\* The part of lifespan after the yield (lines 238-268): every registered
\* process that is still alive is killed with its tree, then the queue and
\* the process table are cleared.  It contains no await.  The server has
\* closed its connections before, so no request is handled afterwards; the
\* worker coroutine and the executor thread are not stopped by it.
lifespan_shutdown ==
  /\ ~down
  /\ procs' = [j \in JobIds |-> KillRegistered(procs, PROCESS_MAP, j)[j]]
  /\ JOB_QUEUE' = <<>>
  /\ PROCESS_MAP' = [j \in JobIds |-> 0]
  /\ down' = TRUE
  /\ resp' = NoResp
  /\ UNCHANGED <<JOB_STATUS, RUNNING_JOB, jobs, nextId, worker, thread, hist,
                 osvars>>

\* ------------------------------------------------------------ environment
\* a supervised process exits by itself with exit code 0 or 1
ProcExit(j, k, rc) ==
  /\ procs[j][k] = "alive"
  /\ procs' = [procs EXCEPT ![j][k] = IF rc = 0 THEN "exit0" ELSE "exit1"]
  /\ UNCHANGED <<JOB_STATUS, JOB_QUEUE, RUNNING_JOB, PROCESS_MAP, jobs, nextId,
                 worker, thread, resp, hist, down, osvars>>

\* ---------------------------------------------------------- specification
Next ==
  \/ \E u \in Users, skip \in BOOLEAN : process(u, skip)
  \/ \E u \in Users : start_pipeline_api(u)
  \/ \E u \in Users, j \in JobIds : cancel(u, j)
  \/ \E u \in Users, j \in JobIds : stop_pipeline(u, j)
  \/ \E u \in Users, j \in JobIds : clear_pipeline_task(u, j)
  \/ lifespan_shutdown
  \/ \E fault \in BOOLEAN : job_worker(fault)
  \/ \E fault \in BOOLEAN : execute_job_poll_p1(fault)
  \/ \E fv \in BOOLEAN : execute_job_poll_p2(fv)
  \/ \E fv \in BOOLEAN : execute_job_full_done(fv)
  \/ \E ok \in BOOLEAN : run_full_pipeline_spawn(ok)
  \/ run_full_pipeline_register
  \/ \E line \in Lines : run_full_pipeline_readline(line)
  \/ run_full_pipeline_check
  \/ \E srt \in BOOLEAN : run_full_pipeline_update(srt)
  \/ run_full_pipeline_wait
  \/ \E j \in JobIds, k \in 1..2, rc \in 0..1 : ProcExit(j, k, rc)

Spec == Init /\ [][Next]_vars

\* the steps of the worker coroutine: the event loop always resumes it
WorkerStep ==
  \/ \E fault \in BOOLEAN : job_worker(fault)
  \/ \E fault \in BOOLEAN : execute_job_poll_p1(fault)
  \/ \E fv \in BOOLEAN : execute_job_poll_p2(fv)
  \/ \E fv \in BOOLEAN : execute_job_full_done(fv)

\* the steps of the executor thread that do not wait for the runner: a read
\* of the next line waits for the runner to print one
ThreadStep ==
  \/ \E ok \in BOOLEAN : run_full_pipeline_spawn(ok)
  \/ run_full_pipeline_register
  \/ run_full_pipeline_check
  \/ \E srt \in BOOLEAN : run_full_pipeline_update(srt)
  \/ run_full_pipeline_wait

\* The event loop and the thread pool keep scheduling the worker and the
\* thread; nothing obliges a supervised process to print a line or to exit.
FairSpec == Spec /\ WF_vars(WorkerStep) /\ WF_vars(ThreadStep)

\* the exit of a supervised process
ProcStep == \E j \in JobIds, k \in 1..2, rc \in 0..1 : ProcExit(j, k, rc)

\* The handlers without the record of their responses.  Which steps are
\* possible never depends on resp, so these steps change the scheduler,
\* the worker, the thread and the processes exactly as the handlers of
\* Next do.
process_live(u, skip) == Submit(FALSE, "process", u, skip)
start_pipeline_api_live(u) == Submit(FALSE, "start", u, FALSE)
cancel_live(u, j) == cancel_request(FALSE, u, j)
stop_pipeline_live(u, j) == stop_pipeline_request(FALSE, u, j)
clear_pipeline_task_live(u, j) == clear_pipeline_task_request(FALSE, u, j)

LiveNext ==
  \/ \E u \in Users, skip \in BOOLEAN : process_live(u, skip)
  \/ \E u \in Users : start_pipeline_api_live(u)
  \/ \E u \in Users, j \in JobIds : cancel_live(u, j)
  \/ \E u \in Users, j \in JobIds : stop_pipeline_live(u, j)
  \/ \E u \in Users, j \in JobIds : clear_pipeline_task_live(u, j)
  \/ lifespan_shutdown
  \/ \E fault \in BOOLEAN : job_worker(fault)
  \/ \E fault \in BOOLEAN : execute_job_poll_p1(fault)
  \/ \E fv \in BOOLEAN : execute_job_poll_p2(fv)
  \/ \E fv \in BOOLEAN : execute_job_full_done(fv)
  \/ \E ok \in BOOLEAN : run_full_pipeline_spawn(ok)
  \/ run_full_pipeline_register
  \/ \E line \in Lines : run_full_pipeline_readline(line)
  \/ run_full_pipeline_check
  \/ \E srt \in BOOLEAN : run_full_pipeline_update(srt)
  \/ run_full_pipeline_wait
  \/ \E j \in JobIds, k \in 1..2, rc \in 0..1 : ProcExit(j, k, rc)

\* The scheduling of FairSpec under the assumption that every supervised
\* process eventually exits (by itself or killed), over the steps of
\* LiveNext.
LiveSpec ==
  /\ Init /\ [][LiveNext]_vars
  /\ WF_vars(WorkerStep) /\ WF_vars(ThreadStep) /\ WF_vars(ProcStep)

\* ------------------------------------------- process-tree termination
\* _kill_process_tree at the level of OS processes.  The state is ptable;
\* psutil and platform are fixed by the host.
schedvars == <<JOB_STATUS, JOB_QUEUE, RUNNING_JOB, PROCESS_MAP, jobs, nextId,
               procs, wpc, wjob, tpc, tline, tres, resp, cancelledQueued,
               cancelledRunning, down>>

KillInit ==
  /\ SchedInit
  /\ psutil \in BOOLEAN
  /\ platform \in {"Linux", "Windows"}
  /\ ptable = OnlyServer

\* the pid the OS hands out next
FreshPid(pt) == CHOOSE p \in Pids : pt[p].state = "none" /\
                                    \A q \in Pids : pt[q].state = "none" => p <= q

HasFreshPid(pt) == \E p \in Pids : pt[p].state = "none"

RECURSIVE IsDescendant(_, _, _, _)
\* q is pid or a descendant of pid (n bounds the walk up the parent links)
IsDescendant(pt, q, pid, n) ==
  \/ q = pid
  \/ /\ n > 0
     /\ pt[q].ppid \in Pids
     /\ IsDescendant(pt, pt[q].ppid, pid, n - 1)

\* the supervised process and the processes it (transitively) spawned
Tree(pt, pid) ==
  {q \in Pids : pt[q].state = "alive" /\ IsDescendant(pt, q, pid, MaxPid)}

\* _run of _execute_job (lines 341-362): preexec_fn = os.setsid on POSIX,
\* CREATE_NEW_PROCESS_GROUP on Windows: the child leads a new group
execute_job_run ==
  /\ ptable[ServerPid].state = "alive"
  /\ HasFreshPid(ptable)
  /\ LET pid == FreshPid(ptable)
     IN ptable' = [ptable EXCEPT ![pid] =
                     [state |-> "alive", ppid |-> ServerPid, pgid |-> pid]]
  /\ UNCHANGED <<schedvars, psutil, platform>>

\* subprocess.Popen of _run_full_pipeline (lines 1243-1253): no preexec_fn,
\* no start_new_session, no creationflags: the child stays in the group of
\* the server
run_full_pipeline_Popen ==
  /\ ptable[ServerPid].state = "alive"
  /\ HasFreshPid(ptable)
  /\ LET pid == FreshPid(ptable)
     IN ptable' = [ptable EXCEPT ![pid] =
                     [state |-> "alive", ppid |-> ServerPid,
                      pgid |-> ptable[ServerPid].pgid]]
  /\ UNCHANGED <<schedvars, psutil, platform>>

\* a supervised process starts a subprocess of its own (ffmpeg, a model
\* server): the child inherits the group of its parent
runner_subprocess(parent) ==
  /\ parent # ServerPid
  /\ ptable[parent].state = "alive"
  /\ HasFreshPid(ptable)
  /\ LET pid == FreshPid(ptable)
     IN ptable' = [ptable EXCEPT ![pid] =
                     [state |-> "alive", ppid |-> parent,
                      pgid |-> ptable[parent].pgid]]
  /\ UNCHANGED <<schedvars, psutil, platform>>

\* the processes _kill_process_tree(pid) terminates: the psutil branch
\* (lines 117-139) and taskkill /T /F (141-146) take the tree; the POSIX
\* fallback (147-168) signals the process group os.getpgid(pid)
Signalled(pt, pid) ==
  IF psutil \/ platform = "Windows"
  THEN Tree(pt, pid)
  ELSE {q \in Pids : pt[q].state = "alive" /\ pt[q].pgid = pt[pid].pgid}

\* the server calls _kill_process_tree on a live process it spawned
kill_process_tree_pid(pid) ==
  /\ ptable[ServerPid].state = "alive"
  /\ pid # ServerPid
  /\ ptable[pid].state = "alive"
  /\ ptable[pid].ppid = ServerPid
  /\ ptable' = [q \in Pids |->
                  IF q \in Signalled(ptable, pid)
                  THEN [ptable[q] EXCEPT !.state = "dead"] ELSE ptable[q]]
  /\ UNCHANGED <<schedvars, psutil, platform>>

KillNext ==
  \/ execute_job_run
  \/ run_full_pipeline_Popen
  \/ \E parent \in Pids : runner_subprocess(parent)
  \/ \E pid \in Pids : kill_process_tree_pid(pid)

KillSpec == KillInit /\ [][KillNext]_vars

\* ================================================================= claims
RunningJobs == {j \in JobIds : JOB_STATUS[j].status = "running"}
SupervisedJobs == {j \in JobIds : Alive(procs, j)}
RegisteredJobs == {j \in JobIds : PROCESS_MAP[j] # 0}

\* the jobs submitted by u whose registry status is queued or running
ActiveJobsOf(u) ==
  {j \in JobIds : JOB_STATUS[j].status \in Active /\ jobs[j].user_id = u}

NeverSpawned(j) == \A k \in 1..2 : procs[j][k] = "none"

\* C1 (single-flight): in every reachable state at most one job has status
\* running, at most one job has a live pipeline process, and the process
\* table holds the process of at most one job.
C1_SingleFlight ==
  /\ Cardinality(RunningJobs) <= 1
  /\ Cardinality(SupervisedJobs) <= 1
  /\ Cardinality(RegisteredJobs) <= 1

\* C1 witness: one job runs with a live process while another one waits in
\* the queue.
C1_Witness ==
  \E a, b \in JobIds :
    /\ a # b
    /\ JOB_STATUS[a].status = "running" /\ Alive(procs, a)
    /\ JOB_STATUS[b].status = "queued" /\ b \in InQueue(JOB_QUEUE)

\* C3 (admission exclusivity): a /process or /api/pipeline/start request of
\* a submitter who has a queued or running job is answered 409 with the id
\* of one of that submitter's active jobs, and it adds no registry record
\* and no queue entry.
C3_AdmissionExclusive ==
  [][\A u \in Users :
       (/\ ActiveJobsOf(u) # {}
        /\ \/ \E skip \in BOOLEAN : process(u, skip)
           \/ start_pipeline_api(u))
       => /\ resp'.code = 409
          /\ resp'.ref \in ActiveJobsOf(u)
          /\ UNCHANGED <<JOB_STATUS, JOB_QUEUE, jobs, nextId>>]_vars

\* C3 witness: a submission has been rejected, naming a job that is running
\* while a fresh job id is still available.
C3_Witness ==
  /\ resp.code = 409
  /\ resp.ref # NoJob
  /\ JOB_STATUS[resp.ref].status = "running"
  /\ nextId <= MaxJobs

\* job ids are handed out in admission order: a < b iff a was enqueued first
AdmissionSorted(q) == \A i, h \in 1..Len(q) : i < h => q[i] < q[h]

\* C4 (FIFO): when a queued job b becomes the running job, no job enqueued
\* before b is still waiting in the queue; and the queue always lists the
\* waiting jobs in admission order, so a removal from the queue neither
\* reorders nor holds back the jobs behind the removed one.
C4_FIFO ==
  [][/\ \A b \in JobIds :
          (b \in InQueue(JOB_QUEUE) /\ RUNNING_JOB' = b /\ RUNNING_JOB # b)
          => \A a \in InQueue(JOB_QUEUE) : b <= a
     /\ AdmissionSorted(JOB_QUEUE')
     /\ \A a, b \in InQueue(JOB_QUEUE) \cap InQueue(JOB_QUEUE') :
          a < b => \E i, h \in 1..Len(JOB_QUEUE') :
                      i < h /\ JOB_QUEUE'[i] = a /\ JOB_QUEUE'[h] = b]_vars

\* C4 witness: the job admitted first runs while the job admitted second is
\* still queued.
C4_Witness ==
  /\ RUNNING_JOB = 1
  /\ JOB_STATUS[1].status = "running"
  /\ JOB_QUEUE = <<2>>

\* C5 (cancel while queued): a /cancel or /api/pipeline/stop accepted for a
\* queued job removes it from the queue and writes cancelled in that step,
\* leaving the running slot, the process table, the processes and every
\* other record as they were; and a job cancelled that way is never again
\* in the queue or in the worker's hands and never has a process.
C5_CancelQueued ==
  [][/\ \A j \in JobIds :
          (/\ JOB_STATUS[j].status = "queued"
           /\ \E u \in Users : cancel(u, j) \/ stop_pipeline(u, j)
           /\ resp'.code = 200)
          => /\ j \notin InQueue(JOB_QUEUE')
             /\ JOB_STATUS'[j].status = "cancelled"
             /\ j \in cancelledQueued'
             /\ UNCHANGED <<RUNNING_JOB, PROCESS_MAP, procs, worker, thread>>
             /\ \A r \in JobIds \ {j} : JOB_STATUS'[r] = JOB_STATUS[r]
     /\ \A j \in cancelledQueued' :
          /\ j \notin InQueue(JOB_QUEUE')
          /\ wjob' # j /\ RUNNING_JOB' # j
          /\ PROCESS_MAP'[j] = 0
          /\ \A k \in 1..2 : procs'[j][k] = "none"]_vars

\* C5 witness (scenario C): a job was cancelled while queued and the job
\* that was running at the time still runs with its process alive.
C5_Witness ==
  \E j \in cancelledQueued, r \in JobIds :
    /\ JOB_STATUS[j].status = "cancelled"
    /\ RUNNING_JOB = r
    /\ JOB_STATUS[r].status = "running"
    /\ PROCESS_MAP[r] # 0
    /\ Alive(procs, r)

\* C2 (terminal exclusivity): once the record of a job holds succeeded,
\* failed or cancelled, no step changes any field of it (a purge may delete
\* the record as a whole).
C2_TerminalExclusive ==
  [][\A j \in JobIds :
       JOB_STATUS[j].status \in Terminal
       => JOB_STATUS'[j] \in {JOB_STATUS[j], NoRec}]_vars

\* C6 (progress monotonicity): while a job stays running, the percent stored
\* in its record never decreases.
C6_ProgressMonotone ==
  [][\A j \in JobIds :
       (JOB_STATUS[j].status = "running" /\ JOB_STATUS'[j].status = "running")
       => JOB_STATUS'[j].progress >= JOB_STATUS[j].progress]_vars

\* C7 (scenario D): when the worker finishes handling a job for which a
\* cancel was accepted while it was running, the registry reports cancelled.
C7_CancelledIsFinal ==
  [][\A j \in cancelledRunning :
       (wjob = j /\ wjob' # j) => JOB_STATUS'[j].status = "cancelled"]_vars

\* C9 (scenario E): a full-pipeline job is never reported succeeded without
\* its dubbed video (merge/<stem>_dubbed.mp4) on disk.
C9_IncompleteResultFails ==
  \A j \in JobIds :
    (JOB_STATUS[j].status = "succeeded" /\ ~jobs[j].skip_tts)
    => JOB_STATUS[j].final_video

\* C10 (cancel authorization): /cancel and /api/pipeline/stop answer 404 for
\* an id without a record and 403 to every requester other than the job's
\* submitter, whatever the status of the record; a rejected request changes
\* neither registry, queue, running slot nor process table.
C10_CancelAuthorization ==
  [][\A u \in Users, j \in JobIds :
       (cancel(u, j) \/ stop_pipeline(u, j))
       => IF JOB_STATUS[j].status = "absent"
          THEN resp'.code = 404 /\ UNCHANGED sched
          ELSE u # jobs[j].user_id => (resp'.code = 403 /\ UNCHANGED sched)]_vars

\* C8 (cancel while running terminates the tree): once a cancel has been
\* accepted for a running job, the scheduler by its own steps brings the
\* job to a state where none of its processes is alive.
C8_TreeTerminated ==
  \A j \in JobIds : (j \in cancelledRunning) ~> ~Alive(procs, j)

\* C11 (cooperative cancellation): a /cancel or /api/pipeline/stop accepted
\* for a running job only sets the cancel flag of its record; the status,
\* the running slot, the process table and the processes are left as they
\* were in that step.
C11_CancelOnlySetsFlag ==
  [][\A u \in Users, j \in JobIds :
       (/\ JOB_STATUS[j].status = "running"
        /\ cancel(u, j) \/ stop_pipeline(u, j)
        /\ resp'.code = 200)
       => /\ JOB_STATUS'[j] = [JOB_STATUS[j] EXCEPT !.cancel = TRUE]
          /\ UNCHANGED <<RUNNING_JOB, PROCESS_MAP, procs>>]_vars

\* C12 (one active job per submitter): in every reachable state each
\* submitter has at most one job whose registry status is queued or running.
C12_OneActivePerSubmitter ==
  \A u \in Users : Cardinality(ActiveJobsOf(u)) <= 1

\* C13 (no job stays running): under LiveSpec, the worker eventually lets go
\* of every job it has taken on, and in the step in which it lets go of a
\* job the registry holds a terminal status for it and the running slot is
\* released, also when job execution raises an exception.
C13_NoJobStaysRunning ==
  /\ [][\A j \in JobIds :
         (wjob = j /\ wjob' # j)
         => (JOB_STATUS'[j].status \in Terminal /\ RUNNING_JOB' # j)]_vars
  /\ (wjob # NoJob) ~> (wjob = NoJob)

\* C13 witness: a job whose first step had exited hit an exception in
\* _execute_job; it is recorded failed and the running slot is free.
C13_Witness ==
  \E j \in JobIds :
    /\ JOB_STATUS[j].status = "failed"
    /\ JOB_STATUS[j].step = "exception"
    /\ procs[j][1] = "gone"
    /\ wjob # j /\ RUNNING_JOB = NoJob

\* C14 (non-zero exit): when the worker lets go of a job for which no cancel
\* was accepted while it ran and one of whose processes exited with a
\* non-zero code, the registry reports failed; no step writes succeeded for
\* a job that has such a process; and nothing is retried: a process slot of
\* a job that has been used is never started again, and the second step of
\* a skip-TTS job is started only after the first one exited with code 0.
C14_NonZeroExitFails ==
  [][\A j \in JobIds :
       /\ (/\ wjob = j /\ wjob' # j
           /\ j \notin cancelledRunning
           /\ \E k \in 1..2 : procs[j][k] = "exit1")
          => JOB_STATUS'[j].status = "failed"
       /\ (\E k \in 1..2 : procs[j][k] = "exit1")
          => JOB_STATUS'[j].status # "succeeded"
       /\ \A k \in 1..2 :
            (procs[j][k] # "alive" /\ procs'[j][k] = "alive")
            => /\ procs[j][k] = "none"
               /\ k = 2 => procs[j][1] = "exit0"]_vars

\* C14 witness: the translate step of a skip-TTS job exited by itself with
\* a non-zero code (no request has been handled since the job's submission)
\* and the job is recorded failed.
C14_Witness ==
  \E j \in JobIds :
    /\ resp = Resp("process", 200, j)
    /\ JOB_STATUS[j].status = "failed"
    /\ JOB_STATUS[j].step = "translate"
    /\ procs[j] = <<"gone", "gone">>
    /\ wjob # j

\* the process whose exit code decides the outcome of job j: the translate
\* step of a skip-TTS job, the pipeline runner otherwise
LastProc(j) == IF jobs[j].skip_tts THEN 2 ELSE 1

C16_FailedHasError ==
  \A j \in JobIds :
    (JOB_STATUS[j].status = "failed") <=> (JOB_STATUS[j].error # "absent")

\* C17 (result only when succeeded): in every reachable state a record that
\* has a 'data' field has status succeeded, and no record has both a 'data'
\* and an 'error' field.
C17_ResultOnlyWhenSucceeded ==
  \A j \in JobIds :
    /\ JOB_STATUS[j].data # "absent" => JOB_STATUS[j].status = "succeeded"
    /\ ~(JOB_STATUS[j].data # "absent" /\ JOB_STATUS[j].error # "absent")

\* C18 (purge touches only a terminal record): a request to
\* /api/pipeline/clear changes the registry only by deleting the record of
\* the job it names, only if that record is terminal, and it leaves the
\* queue, the running slot, the process table and every process unchanged.
C18_PurgeOnlyDeletesTerminal ==
  [][\A u \in Users, j \in JobIds :
       clear_pipeline_task(u, j)
       => /\ JOB_STATUS'[j] # JOB_STATUS[j]
             => (JOB_STATUS[j].status \in Terminal /\ JOB_STATUS'[j] = NoRec)
          /\ \A r \in JobIds \ {j} : JOB_STATUS'[r] = JOB_STATUS[r]
          /\ UNCHANGED <<JOB_QUEUE, RUNNING_JOB, PROCESS_MAP, procs>>]_vars

\* C19 (state machine): a record leaves queued only to running or cancelled
\* and leaves running only to succeeded, failed or cancelled; the record of
\* a job that has been submitted never becomes queued again; no record goes
\* from queued to succeeded, nor to failed except in the worker's dequeue
\* step, which writes running (line 224) before _execute_job fails in the
\* same uninterrupted run.  The deletion of a record by a purge is not a
\* status transition.
C19_StateMachine ==
  [][\A j \in JobIds :
       LET old == JOB_STATUS[j].status
           new == JOB_STATUS'[j].status
       IN /\ (old = "queued" /\ new \notin {old, "absent"})
             => \/ new \in {"running", "cancelled"}
                \/ /\ new = "failed"
                   /\ job_worker(TRUE)
                   /\ JOB_QUEUE # <<>> /\ QueueHead(JOB_QUEUE) = j
          /\ (old = "running" /\ new \notin {old, "absent"}) => new \in Terminal
          /\ (old # "queued" /\ new = "queued") => jobs[j] = NoJobDict]_vars

\* C19 witness: one job was cancelled while it was queued and another one
\* went from queued through running to succeeded.
C19_Witness ==
  \E a, b \in JobIds :
    /\ a \in cancelledQueued /\ JOB_STATUS[a].status = "cancelled"
    /\ JOB_STATUS[b].status = "succeeded"
    /\ procs[b][1] = "gone"

\* C20 (the cancel flag is never cleared): a /cancel accepted for a running
\* job leaves the cancel flag set on the job's record, and a flag that is
\* set on a record stays set as long as the record exists.
C20_CancelFlagSticks ==
  [][\A j \in JobIds :
       /\ (/\ JOB_STATUS[j].status = "running"
           /\ \E u \in Users : cancel(u, j)
           /\ resp'.code = 200)
          => JOB_STATUS'[j].cancel
       /\ (JOB_STATUS[j].cancel /\ JOB_STATUS'[j].status # "absent")
          => JOB_STATUS'[j].cancel]_vars

\* C21 (check-then-write is atomic): between the pipeline reader's check
\* that its job is not cancelled (line 1266) and its progress/status write
\* (line 1305), no other operation writes the record of that job; so the
\* reader never writes 'running' over a record that says cancelled.
C21_ReaderCheckThenWriteAtomic ==
  [][/\ (tpc = "update" /\ tpc' = "update")
        => JOB_STATUS'[wjob] = JOB_STATUS[wjob]
     /\ (\E srt \in BOOLEAN : run_full_pipeline_update(srt))
        => JOB_STATUS[wjob].status # "cancelled"]_vars

\* C22 (process-table discipline): after every step the process
\* table has at most one entry and only for a job whose status is running
\* (so never for a job whose status is terminal); and a /cancel or
\* /api/pipeline/stop for a job that is not running changes neither the
\* process table nor any process.
C22_ProcessTableDiscipline ==
  [][/\ Cardinality(RegisteredJobs') <= 1
     /\ \A j \in RegisteredJobs' : JOB_STATUS'[j].status = "running"
     /\ \A u \in Users, j \in JobIds :
          (/\ JOB_STATUS[j].status # "running"
           /\ cancel(u, j) \/ stop_pipeline(u, j))
          => UNCHANGED <<PROCESS_MAP, procs>>]_vars

\* C23 (worker progress): under LiveSpec every job that waits in the queue
\* eventually leaves it (dequeued by the worker, unless a cancel or a purge
\* removes it first); the worker's dequeue takes the head and leaves it
\* running, or failed when _execute_job raises at once; and whenever the
\* worker lets go of a job, whatever the outcome, the running slot is free.
C23_WorkerProgress ==
  /\ [][/\ (\E fault \in BOOLEAN : job_worker(fault))
           => /\ JOB_QUEUE' = QueueRest(JOB_QUEUE)
              /\ JOB_STATUS'[QueueHead(JOB_QUEUE)].status \in {"running", "failed"}
        /\ (wjob # NoJob /\ wjob' = NoJob) => RUNNING_JOB' = NoJob
        /\ (wpc' = "idle") => RUNNING_JOB' = NoJob]_vars
  /\ \A j \in JobIds : (j \in InQueue(JOB_QUEUE)) ~> (j \notin InQueue(JOB_QUEUE))

\* C23 witness: the second job runs after the first one went through the
\* worker and ended.
C23_Witness ==
  /\ JOB_STATUS[1].status \in Terminal
  /\ procs[1][1] = "gone"
  /\ RUNNING_JOB = 2 /\ wjob = 2
  /\ JOB_STATUS[2].status = "running"

\* C24 (percent outside running/succeeded): in every reachable state a
\* record whose status is queued, failed or cancelled has progress 0.
C24_PercentZeroWhenNotRunning ==
  \A j \in JobIds :
    JOB_STATUS[j].status \in {"queued", "failed", "cancelled"}
    => JOB_STATUS[j].progress = 0

\* C24 witness: a job that was running (progress at least 5) was cancelled
\* and is still in the worker's hands, while another job is queued.
C24_Witness ==
  \E j \in cancelledRunning, q \in JobIds :
    /\ wjob = j
    /\ JOB_STATUS[j].status = "cancelled"
    /\ JOB_STATUS[j].progress = 0
    /\ JOB_STATUS[q].status = "queued"

\* C25 (shutdown teardown): the shutdown step terminates every process that
\* is alive and registered in the process table and empties the queue and
\* the process table; after it no job is taken from the queue and no new
\* process is spawned.
C25_ShutdownTeardown ==
  [][/\ lifespan_shutdown
        => /\ \A j \in RegisteredJobs :
                procs[j][PROCESS_MAP[j]] = "alive"
                => procs'[j][PROCESS_MAP[j]] = "killed"
           /\ JOB_QUEUE' = <<>>
           /\ RegisteredJobs' = {}
     /\ down
        => /\ ~(\E fault \in BOOLEAN : job_worker(fault))
           /\ \A j \in JobIds, k \in 1..2 :
                procs'[j][k] = "alive" => procs[j][k] = "alive"]_vars

\* C26 (no spawn after an acknowledged cancel): once a /cancel or
\* /api/pipeline/stop for a job has been answered 200, no process is
\* started for that job.
C26_NoSpawnAfterCancel ==
  [][\A j \in cancelledQueued \cup cancelledRunning :
       \A k \in 1..2 : procs'[j][k] = "alive" => procs[j][k] = "alive"]_vars

\* C27 (termination stays inside the tree): a call of _kill_process_tree
\* changes only the supervised process it is given and that process's
\* descendants; in particular the server process itself stays alive,
\* whichever path spawned the process and whichever branch is taken.
C27_KillOnlyTree ==
  [][\A pid \in Pids :
       kill_process_tree_pid(pid)
       => /\ \A q \in Pids :
               ptable'[q] # ptable[q] => q \in Tree(ptable, pid)
          /\ ptable'[ServerPid].state = "alive"]_vars

\* C28 (a purged job stays purged): once the record of a submitted job has
\* been deleted, no step creates a record for that job id again.
C28_PurgedStaysAbsent ==
  [][\A j \in JobIds :
       (jobs[j] # NoJobDict /\ JOB_STATUS[j].status = "absent")
       => JOB_STATUS'[j].status = "absent"]_vars

\* C29 (the owner is kept): in every reachable state every registry record
\* carries the user id of the submitter who created the job.
C29_OwnerKept ==
  \A j \in JobIds :
    JOB_STATUS[j].status # "absent" => JOB_STATUS[j].user_id = jobs[j].user_id

\* C30 (queue/registry consistency): while the server is up, a job is in
\* the queue exactly if its record has status queued (so every queue entry
\* has a record), no job id is in the queue twice, and the job in the
\* running slot is not in the queue.
C30_QueueRegistryConsistent ==
  ~down =>
    /\ \A j \in JobIds :
         (j \in InQueue(JOB_QUEUE)) <=> (JOB_STATUS[j].status = "queued")
    /\ Cardinality(InQueue(JOB_QUEUE)) = Len(JOB_QUEUE)
    /\ RUNNING_JOB \notin InQueue(JOB_QUEUE)

\* C30 witness: the server is up, one job has been removed from the queue
\* by a cancel, one job is running and nothing is queued any more.
C30_Witness ==
  /\ ~down
  /\ cancelledQueued # {}
  /\ RUNNING_JOB # NoJob
  /\ JOB_STATUS[RUNNING_JOB].status = "running"
  /\ JOB_QUEUE = <<>>

====
